---- MODULE Spec2Model ----
(***************************************************************************)
(* A model of thoth.python.package_version.PackageVersion: one package     *)
(* version entry of a Pipfile / Pipfile.lock, its constructors, its        *)
(* version semantics, its comparisons and its serialisations.              *)
(*                                                                         *)
(* Conventions.  A Python string whose characters or emptiness the code    *)
(* inspects (the version, the markers) is a sequence of one-character      *)
(* strings; names, URLs and hashes, which the code only passes on, are     *)
(* TLA+ strings.  An optional value is a sequence of length 0 (None) or 1. *)
(* A dict is a function whose DOMAIN is its key set.                       *)
(* The outcome of a call is a record [exc, ret]: exc names the exception   *)
(* that left the call ("" when it returned), ret is the returned value.    *)
(* The semantic_version library is modelled as of its 2.6 release: coerce  *)
(* does not strip leading zeros, and versions that differ only in their    *)
(* build metadata are unordered.                                           *)
(***************************************************************************)
EXTENDS Integers, Sequences, FiniteSets, TLC

\* ------------------------------------------------------------ Python values

PyNone == <<>>

Some(x) == <<x>>

IsNone(o) == o = <<>>

Returned(v) == [exc |-> "", ret |-> v]

Raised(e) == [exc |-> e, ret |-> PyNone]

\* ------------------------------------------------------- character strings

Digits == {"0", "1", "2", "3", "4", "5", "6", "7", "8", "9"}

Letters == {"a", "b", "c", "r", "x"}

DigitVal(c) ==
    CASE c = "0" -> 0 [] c = "1" -> 1 [] c = "2" -> 2 [] c = "3" -> 3
      [] c = "4" -> 4 [] c = "5" -> 5 [] c = "6" -> 6 [] c = "7" -> 7
      [] c = "8" -> 8 [] c = "9" -> 9

DigitChar(n) ==
    CASE n = 0 -> "0" [] n = 1 -> "1" [] n = 2 -> "2" [] n = 3 -> "3"
      [] n = 4 -> "4" [] n = 5 -> "5" [] n = 6 -> "6" [] n = 7 -> "7"
      [] n = 8 -> "8" [] n = 9 -> "9"

\* The code point of a character, as far as string comparison needs it.
Ord(c) ==
    CASE c = "!" -> 33 [] c = "*" -> 42 [] c = "+" -> 43 [] c = "-" -> 45
      [] c = "." -> 46 [] c \in Digits -> 48 + DigitVal(c)
      [] c = "=" -> 61 [] c = ">" -> 62
      [] c = "a" -> 97 [] c = "b" -> 98 [] c = "c" -> 99
      [] c = "r" -> 114 [] c = "x" -> 120

IsDigitStr(s) == s # <<>> /\ \A i \in 1..Len(s) : s[i] \in Digits

StartsWith(s, p) == Len(s) >= Len(p) /\ SubSeq(s, 1, Len(p)) = p

\* s[n:]
SliceFrom(s, n) == SubSeq(s, n + 1, Len(s))

\* The least position of character c in s, 0 when there is none.
Find(s, c) ==
    IF \E i \in 1..Len(s) : s[i] = c
    THEN CHOOSE i \in 1..Len(s) : s[i] = c /\ \A j \in 1..(i - 1) : s[j] # c
    ELSE 0

RECURSIVE Split(_, _)
\* s.split(sep): always at least one part.
Split(s, sep) ==
    LET i == Find(s, sep)
    IN  IF i = 0 THEN <<s>>
        ELSE <<SubSeq(s, 1, i - 1)>> \o Split(SliceFrom(s, i), sep)

RECURSIVE Join(_, _)
\* sep.join(parts)
Join(parts, sep) ==
    IF parts = <<>> THEN <<>>
    ELSE IF Len(parts) = 1 THEN parts[1]
    ELSE parts[1] \o <<sep>> \o Join(Tail(parts), sep)

RECURSIVE DigitsToNat(_)
DigitsToNat(s) ==
    IF s = <<>> THEN 0
    ELSE 10 * DigitsToNat(SubSeq(s, 1, Len(s) - 1)) + DigitVal(s[Len(s)])

RECURSIVE NatToDigits(_)
NatToDigits(n) ==
    IF n < 10 THEN <<DigitChar(n)>>
    ELSE NatToDigits(n \div 10) \o <<DigitChar(n % 10)>>

\* int(s): an optional sign and decimal digits; anything else is a ValueError
\* (None here).
PyInt(s) ==
    IF IsDigitStr(s) THEN Some(DigitsToNat(s))
    ELSE IF Len(s) >= 2 /\ s[1] = "+" /\ IsDigitStr(Tail(s))
         THEN Some(DigitsToNat(Tail(s)))
    ELSE IF Len(s) >= 2 /\ s[1] = "-" /\ IsDigitStr(Tail(s))
         THEN Some(0 - DigitsToNat(Tail(s)))
    ELSE PyNone

\* str(n) of an int
PyStr(n) == IF n < 0 THEN <<"-">> \o NatToDigits(0 - n) ELSE NatToDigits(n)

\* s0 < s1 on strings: by code point, a proper prefix first.
RECURSIVE StrLess(_, _)
StrLess(s0, s1) ==
    IF s1 = <<>> THEN FALSE
    ELSE IF s0 = <<>> THEN TRUE
    ELSE IF s0[1] # s1[1] THEN Ord(s0[1]) < Ord(s1[1])
    ELSE StrLess(Tail(s0), Tail(s1))

\* ------------------------------------------------ the semantic_version library

\* [0-9a-zA-Z.-]
IsIdentChar(c) == c \in Digits \/ c \in Letters \/ c = "." \/ c = "-"

\* Version._validate_identifiers: no empty identifier and, unless allowed, no
\* numeric identifier with a leading zero.
IdentifiersOk(ids, allowLeadingZeroes) ==
    \A i \in 1..Len(ids) :
        /\ ids[i] # <<>>
        /\ allowLeadingZeroes
           \/ ~(ids[i][1] = "0" /\ IsDigitStr(ids[i]) /\ ids[i] # <<"0">>)

\* A numeric component of the version core: digits without a leading zero.
CoreNumberOk(s) == IsDigitStr(s) /\ (s = <<"0">> \/ s[1] # "0")

\* The part of s before the first c (all of s when there is none), and the
\* part after it (empty when there is none).
UpTo(s, c) == IF Find(s, c) = 0 THEN s ELSE SubSeq(s, 1, Find(s, c) - 1)

After(s, c) == IF Find(s, c) = 0 THEN <<>> ELSE SliceFrom(s, Find(s, c))

\* Where the core of a version text ends: the first "-" or "+", or the end.
CoreEnd(text) ==
    IF \E i \in 1..Len(text) : text[i] \in {"-", "+"}
    THEN CHOOSE i \in 1..Len(text) :
             /\ text[i] \in {"-", "+"}
             /\ \A j \in 1..(i - 1) : text[j] \notin {"-", "+"}
    ELSE Len(text) + 1

\* The groups of version_re once matched: the core's components, the
\* prerelease and the build text (each None when its group is missing).
VersionOfFields(core, pre, build, partial) ==
    IF /\ IF partial THEN Len(core) \in 1..3 ELSE Len(core) = 3
       /\ \A i \in 1..Len(core) : CoreNumberOk(core[i])
       /\ IsNone(pre) \/ \A i \in 1..Len(pre[1]) : IsIdentChar(pre[1][i])
       /\ IsNone(build) \/ \A i \in 1..Len(build[1]) : IsIdentChar(build[1][i])
       /\ partial \/ IsNone(pre) \/ pre[1] # <<>>
       /\ partial \/ IsNone(build) \/ build[1] # <<>>
       /\ IsNone(pre) \/ pre[1] = <<>> \/ IdentifiersOk(Split(pre[1], "."), FALSE)
       /\ IsNone(build) \/ build[1] = <<>> \/ IdentifiersOk(Split(build[1], "."), TRUE)
    THEN Some([major |-> DigitsToNat(core[1]),
               minor |-> IF Len(core) >= 2 THEN DigitsToNat(core[2]) ELSE 0,
               patch |-> IF Len(core) >= 3 THEN DigitsToNat(core[3]) ELSE 0,
               prerelease |-> IF IsNone(pre) \/ pre[1] = <<>> THEN <<>>
                              ELSE Split(pre[1], "."),
               build |-> IF IsNone(build) \/ build[1] = <<>> THEN <<>>
                         ELSE Split(build[1], ".")])
    ELSE PyNone

\* The text after the core: "-<prerelease>" up to a "+", then "+<build>".
VersionOfParts(coreText, rest, partial) ==
    VersionOfFields(Split(coreText, "."),
                    IF rest # <<>> /\ rest[1] = "-" THEN Some(UpTo(Tail(rest), "+"))
                    ELSE PyNone,
                    IF Find(rest, "+") # 0 THEN Some(After(rest, "+")) ELSE PyNone,
                    partial)

\* semver.Version(text, partial): None stands for the ValueError the library
\* raises.  The text is <core>[-<prerelease>][+<build>]; the core has three
\* dot-separated numbers (one to three when partial).
Version(text, partial) ==
    VersionOfParts(SubSeq(text, 1, CoreEnd(text) - 1),
                   SliceFrom(text, CoreEnd(text) - 1), partial)

RECURSIVE DigitRun(_)
\* The length of the longest prefix of s that is digits.
DigitRun(s) == IF s # <<>> /\ s[1] \in Digits THEN 1 + DigitRun(Tail(s)) ELSE 0

\* The length of a \.\d+ group at the start of s, 0 when there is none.
DotGroup(s) ==
    IF s # <<>> /\ s[1] = "." /\ DigitRun(Tail(s)) > 0
    THEN 1 + DigitRun(Tail(s)) ELSE 0

BaseMatchThird(text, n1, n2) ==
    IF n2 = n1 THEN n1 ELSE n2 + DotGroup(SliceFrom(text, n2))

BaseMatchSecond(text, n1) ==
    IF n1 = 0 THEN 0
    ELSE BaseMatchThird(text, n1, n1 + DotGroup(SliceFrom(text, n1)))

\* The length of the longest prefix of text matching \d+(\.\d+(\.\d+)?)?
BaseMatchEnd(text) == BaseMatchSecond(text, DigitRun(text))

\* re.sub(r'[^a-zA-Z0-9+.-]', '-', rest)
Cleanup(rest) ==
    [i \in 1..Len(rest) |->
        IF IsIdentChar(rest[i]) \/ rest[i] = "+" THEN rest[i] ELSE "-"]

\* s.replace('+', '.')
PlusToDot(s) == [i \in 1..Len(s) |-> IF s[i] = "+" THEN "." ELSE s[i]]

\* The base padded with ".0" to three components.
Pad(base) ==
    IF Cardinality({i \in 1..Len(base) : base[i] = "."}) = 0
    THEN base \o <<".", "0", ".", "0">>
    ELSE IF Cardinality({i \in 1..Len(base) : base[i] = "."}) = 1
    THEN base \o <<".", "0">>
    ELSE base

\* What follows the base, split into a prerelease and a build text.
PrereleasePart(rest) ==
    IF rest[1] \in {"+", "."} THEN <<>>
    ELSE IF rest[1] = "-" THEN UpTo(Tail(rest), "+")
    ELSE UpTo(rest, "+")

BuildPart(rest) ==
    IF rest[1] \in {"+", "."} THEN Tail(rest)
    ELSE IF rest[1] = "-" THEN After(Tail(rest), "+")
    ELSE After(rest, "+")

Assemble(base, prerelease, build) ==
    base \o (IF prerelease # <<>> THEN <<"-">> \o prerelease ELSE <<>>)
         \o (IF build # <<>> THEN <<"+">> \o build ELSE <<>>)

CoerceAt(text, n, rest) ==
    IF n = 0 THEN PyNone
    ELSE Version(IF n = Len(text) THEN Pad(text)
                 ELSE Assemble(Pad(SubSeq(text, 1, n)), PrereleasePart(rest),
                               PlusToDot(BuildPart(rest))),
                 FALSE)

\* semver.Version.coerce(text): the numeric base padded to three components,
\* what follows it turned into a prerelease or a build part, and the result
\* handed to Version.  None stands for a ValueError.
Coerce(text) ==
    CoerceAt(text, BaseMatchEnd(text), Cleanup(SliceFrom(text, BaseMatchEnd(text))))

\* base_cmp
BaseCmp(x, y) == IF x = y THEN 0 ELSE IF x < y THEN 0 - 1 ELSE 1

\* identifier_cmp: numeric identifiers by value and before the others, the
\* others as strings.
IdentifierCmp(a, b) ==
    IF IsDigitStr(a) /\ IsDigitStr(b) THEN BaseCmp(DigitsToNat(a), DigitsToNat(b))
    ELSE IF IsDigitStr(a) THEN 0 - 1
    ELSE IF IsDigitStr(b) THEN 1
    ELSE IF a = b THEN 0
    ELSE IF StrLess(a, b) THEN 0 - 1 ELSE 1

RECURSIVE IdentifierListCmp(_, _)
\* identifier_list_cmp: pairwise, then the shorter list first.
IdentifierListCmp(a, b) ==
    IF a = <<>> \/ b = <<>> THEN BaseCmp(Len(a), Len(b))
    ELSE IF IdentifierCmp(a[1], b[1]) # 0 THEN IdentifierCmp(a[1], b[1])
    ELSE IdentifierListCmp(Tail(a), Tail(b))

\* prerelease_cmp: a version without a prerelease part is the higher one.
PrereleaseCmp(a, b) ==
    IF a # <<>> /\ b # <<>> THEN IdentifierListCmp(a, b)
    ELSE IF a # <<>> THEN 0 - 1
    ELSE IF b # <<>> THEN 1
    ELSE 0

NotImplemented == 2

\* Version.__cmp__: -1, 0, 1, or NotImplemented when only the build metadata
\* differ (there is no order on build metadata).
VersionCmp(v, w) ==
    IF v.major # w.major THEN BaseCmp(v.major, w.major)
    ELSE IF v.minor # w.minor THEN BaseCmp(v.minor, w.minor)
    ELSE IF v.patch # w.patch THEN BaseCmp(v.patch, w.patch)
    ELSE IF PrereleaseCmp(v.prerelease, w.prerelease) # 0
         THEN PrereleaseCmp(v.prerelease, w.prerelease)
    ELSE IF v.build = w.build THEN 0
    ELSE NotImplemented

\* Version.__lt__ and Version.__gt__
VersionLt(v, w) == VersionCmp(v, w) = 0 - 1

VersionGt(v, w) == VersionCmp(v, w) = 1

\* The comparison operators a version specification knows.
SpecKinds ==
    {<<"<">>, <<"<", "=">>, <<"=", "=">>, <<">", "=">>, <<">">>, <<"!", "=">>}

SpecOf(text, n, v) ==
    IF text = <<"*">> THEN Some([kind |-> <<"*">>, spec |-> PyNone])
    ELSE IF n = 0 \/ IsNone(v) THEN PyNone
    ELSE Some([kind |-> SubSeq(text, 1, n), spec |-> v])

\* The length of the comparison operator text starts with, 0 when none.
KindLen(text) ==
    IF Len(text) >= 2 /\ SubSeq(text, 1, 2) \in SpecKinds THEN 2
    ELSE IF Len(text) >= 1 /\ SubSeq(text, 1, 1) \in SpecKinds THEN 1
    ELSE 0

\* semver.Spec(text) for a single clause: an operator followed by a (partial)
\* version, or "*".  None stands for a ValueError.
Spec_(text) ==
    SpecOf(text, KindLen(text), Version(SliceFrom(text, KindLen(text)), TRUE))

\* ------------------------------------------------------------------ dicts

EmptyDict == <<>>

\* d.pop(k) of a present key, and d.pop(k, default): the dict that is left.
Pop(d, k) == [x \in (DOMAIN d) \ {k} |-> d[x]]

\* d.get(k, default)
Get(d, k, default) == IF k \in DOMAIN d THEN d[k] ELSE default

\* {k: v}
Single(k, v) == [x \in {k} |-> v]

\* The dict d with d[k] = v added.
Put(d, k, v) == [x \in (DOMAIN d) \cup {k} |-> IF x = k THEN v ELSE d[x]]

\* ------------------------------------------------------------ collaborators

\* thoth.python.source.Source: a package index, by URL and symbolic name.
Source(url, name) == [url |-> url, name |-> name]

PyPI == Source("https://pypi.org/simple", "pypi")

Alt == Source("https://alt.example/simple", "alt")

\* Source(url=...) with the name left to its default, derived from the URL.
SourceOfUrl(url) ==
    Source(url, IF url = PyPI.url THEN "pypi-org" ELSE "alt-example")

\* PipenvMeta: the sources a Pipfile declares, by name.
Meta(names) == [sources |-> [n \in names |-> IF n = "pypi" THEN PyPI ELSE Alt]]

\* ---------------------------------------------------------- PackageVersion

\* The attrs constructor: both memoised fields start as None.
PackageVersion(name, version, develop, index, hashes, markers) ==
    [name |-> name, version |-> version, develop |-> develop, index |-> index,
     hashes |-> hashes, markers |-> markers,
     _semantic_version |-> PyNone, _version_spec |-> PyNone]

\* The outcome of a method together with the object it leaves behind.
Call(out, self) == [out |-> out, self |-> self]

to_dict(self) ==
    Returned([name |-> self.name, version |-> self.version,
              develop |-> self.develop, index |-> self.index,
              hashes |-> self.hashes, markers |-> self.markers])

\* self.index.url: an AttributeError on None.
IndexUrl(self) ==
    IF IsNone(self.index) THEN Raised("AttributeError")
    ELSE Returned(self.index[1].url)

\* `and` evaluates left to right and stops at the first false operand; the
\* last operand compares self.index.url with itself.
__eq__(self, other) ==
    IF self.name # other.name THEN Returned(FALSE)
    ELSE IF self.version # other.version THEN Returned(FALSE)
    ELSE IF IndexUrl(self).exc # "" THEN Raised(IndexUrl(self).exc)
    ELSE Returned(IndexUrl(self).ret = IndexUrl(self).ret)

from_model(model, develop) ==
    PackageVersion(model.package_name, model.package_version, develop,
                   Some(SourceOfUrl(model.index)), <<>>, PyNone)

is_locked(self) == StartsWith(self.version, <<"=", "=">>)

\* A new object; a str is immutable, so copy(self.version) is the same text.
duplicate(self) ==
    PackageVersion(self.name, self.version, self.develop, self.index,
                   self.hashes, self.markers)

\* negate_version with the whole "==" prefix dropped: "!" + self.version[2:].
negate_version_dropping_prefix(self) ==
    IF ~is_locked(self) THEN Call(Raised("InternalError"), self)
    ELSE Call(Returned(PyNone),
              [self EXCEPT !.version = <<"!">> \o SliceFrom(self.version, 2)])

negate_version(self) ==
    IF ~is_locked(self) THEN Call(Raised("InternalError"), self)
    ELSE Call(Returned(PyNone),
              [self EXCEPT !.version = <<"!">> \o SliceFrom(self.version, 1)])

\* locked_version without its is_locked() guard.
locked_version_unguarded(self) == Returned(SliceFrom(self.version, 2))

locked_version(self) ==
    IF ~is_locked(self) THEN Raised("InternalError")
    ELSE Returned(SliceFrom(self.version, 2))

ParsedOr(strict, coerced) ==
    IF ~IsNone(strict) THEN Returned(strict[1])
    ELSE IF ~IsNone(coerced) THEN Returned(coerced[1])
    ELSE Raised("ValueError")

\* Strict parsing first, Version.coerce when anything goes wrong; a failure of
\* coerce (a ValueError) leaves the function.
parse_semantic_version(version_identifier) ==
    ParsedOr(Version(version_identifier, FALSE), Coerce(version_identifier))

TrimmedParts(parts) ==
    IF \E i \in 1..Len(parts) : IsNone(PyInt(parts[i]))
    THEN Raised("ValueError")
    ELSE Returned(Join([i \in 1..Len(parts) |-> PyStr(PyInt(parts[i])[1])], "."))

\* ".".join(map(str, map(int, parts))): int() raises ValueError on a part that
\* is no integer.
TrimLeadingZeros(text) == TrimmedParts(Split(text, "."))

\* The except branch: the retry is outside any try.
RetryTrimmed(trimmed) ==
    IF trimmed.exc # "" THEN trimmed ELSE parse_semantic_version(trimmed.ret)

\* try / except ValueError around the first parse.
ParseWithWorkaround(first, text) ==
    IF first.exc = "" THEN first ELSE RetryTrimmed(TrimLeadingZeros(text))

\* self._semantic_version is assigned only when a parse returned.
Memoised(self, out) ==
    IF out.exc = "" THEN Call(out, [self EXCEPT !._semantic_version = Some(out.ret)])
    ELSE Call(out, self)

SemanticVersionOf(self, locked) ==
    IF locked.exc # "" THEN Call(locked, self)
    ELSE Memoised(self, ParseWithWorkaround(parse_semantic_version(locked.ret),
                                            locked.ret))

\* The guard is consulted only while nothing is memoised; the parse is done on
\* every read.  Only ValueError is caught.
semantic_version(self) ==
    IF IsNone(self._semantic_version) /\ ~is_locked(self)
    THEN Call(Raised("InternalError"), self)
    ELSE SemanticVersionOf(self, locked_version(self))

SpecificationOf(self, spec) ==
    IF ~IsNone(self._version_spec) THEN Call(Returned(self._version_spec[1]), self)
    ELSE IF IsNone(spec) THEN Call(Raised("ValueError"), self)
    ELSE Call(Returned(spec[1]), [self EXCEPT !._version_spec = spec])

\* Parsed once from self.version, then returned as memoised.
version_specification(self) == SpecificationOf(self, Spec_(self.version))

\* The two operands of an ordering, each after its semantic_version was read.
Cmp(out, self, other) == [out |-> out, self |-> self, other |-> other]

\* self.semantic_version is read before other.semantic_version.
Ordered(self, other, a, b, lower) ==
    IF self.name # other.name THEN Cmp(Raised("ValueError"), self, other)
    ELSE IF a.out.exc # "" THEN Cmp(a.out, a.self, other)
    ELSE IF b.out.exc # "" THEN Cmp(b.out, a.self, b.self)
    ELSE Cmp(Returned(IF lower THEN VersionLt(a.out.ret, b.out.ret)
                               ELSE VersionGt(a.out.ret, b.out.ret)),
             a.self, b.self)

Ordering(self, other, lower) ==
    Ordered(self, other, semantic_version(self), semantic_version(other), lower)

\* __lt__ comparing with > instead of <.
lt_comparing_greater(self, other) == Ordering(self, other, FALSE)

__lt__(self, other) == Ordering(self, other, TRUE)

__gt__(self, other) == Ordering(self, other, FALSE)

\* _get_index_from_meta with the branch the code leaves commented out: a
\* package without an index gets the only source of the registry.
get_index_assigning_only_source(meta, package_name, index_name) ==
    IF ~IsNone(index_name) /\ index_name[1] \in DOMAIN meta.sources
    THEN Returned(Some(meta.sources[index_name[1]]))
    ELSE IF ~IsNone(index_name) THEN Raised("PipfileParseError")
    ELSE IF Cardinality(DOMAIN meta.sources) = 1
    THEN Returned(Some(meta.sources[CHOOSE n \in DOMAIN meta.sources : TRUE]))
    ELSE Returned(PyNone)

_get_index_from_meta(meta, package_name, index_name) ==
    IF ~IsNone(index_name) /\ index_name[1] \in DOMAIN meta.sources
    THEN Returned(Some(meta.sources[index_name[1]]))
    ELSE IF ~IsNone(index_name) THEN Raised("PipfileParseError")
    ELSE Returned(PyNone)

\* The outcome of a constructor together with the caller's entry after the call.
Parsed(out, entry) == [out |-> out, entry |-> entry]

\* The work is done on a copy, dict(entry): the caller's entry is not touched.
from_pipfile_lock_entry(package_name, entry, develop, meta) ==
    LET index == _get_index_from_meta(meta, package_name, Get(entry, "index", PyNone))
    IN  IF Get(entry, "version", <<>>) = <<>> \/ Get(entry, "hashes", <<>>) = <<>>
        THEN Parsed(Raised("PipfileParseError"), entry)
        ELSE IF index.exc # "" THEN Parsed(Raised(index.exc), entry)
        ELSE Parsed(Returned(PackageVersion(package_name, entry["version"], develop,
                                            index.ret, entry["hashes"],
                                            Get(entry, "markers", PyNone))),
                    entry)

to_pipfile_lock(self) ==
    LET base == [version |-> self.version, hashes |-> self.hashes]
        withMarkers == IF ~IsNone(self.markers) /\ self.markers[1] # <<>>
                       THEN Put(base, "markers", self.markers) ELSE base
        result == IF ~IsNone(self.index)
                  THEN Put(withMarkers, "index", Some(self.index[1].name))
                  ELSE withMarkers
    IN  IF ~is_locked(self) THEN Raised("InternalError")
        ELSE Returned(Single(self.name, result))

\* The tuple is built left to right: locked_version before index.url.
to_tuple(self) ==
    IF locked_version(self).exc # "" THEN Raised(locked_version(self).exc)
    ELSE IF IndexUrl(self).exc # "" THEN Raised(IndexUrl(self).exc)
    ELSE Returned(<<self.name, locked_version(self).ret, IndexUrl(self).ret>>)

to_tuple_locked(self) == to_tuple(self)

to_pipfile(self) ==
    LET withIndex == IF ~IsNone(self.index)
                     THEN Single("index", Some(self.index[1].name)) ELSE EmptyDict
        result == IF ~IsNone(self.markers) /\ self.markers[1] # <<>>
                  THEN Put(withIndex, "markers", self.markers) ELSE withIndex
    IN  IF result = EmptyDict THEN Returned(Single(self.name, self.version))
        ELSE Returned(Single(self.name, Put(result, "version", self.version)))

\* A Pipfile entry is a str or a dict.
StrEntry(s) == [isstr |-> TRUE, val |-> s]

DictEntry(d) == [isstr |-> FALSE, val |-> d]

VcsKeys == {"git", "hg", "bzr", "svn"}

\* The dict is the caller's own: "version" and "index" are popped from it.
\* entry.pop("version") of a missing key is a KeyError.
from_pipfile_entry(package_name, entry, develop, meta) ==
    LET d == entry.val
        popped == DictEntry(Pop(Pop(d, "version"), "index"))
        index == IF entry.isstr
                 THEN _get_index_from_meta(meta, package_name, PyNone)
                 ELSE _get_index_from_meta(meta, package_name, Get(d, "index", PyNone))
    IN  IF entry.isstr
        THEN Parsed(Returned(PackageVersion(package_name, entry.val, develop,
                                            index.ret, <<>>, PyNone)), entry)
        ELSE IF (DOMAIN d) \cap VcsKeys # {}
        THEN Parsed(Raised("UnsupportedConfiguration"), entry)
        ELSE IF "version" \notin DOMAIN d THEN Parsed(Raised("KeyError"), entry)
        ELSE IF index.exc # "" THEN Parsed(Raised(index.exc), popped)
        ELSE Parsed(Returned(PackageVersion(package_name, d["version"], develop,
                                            index.ret, <<>>, PyNone)), popped)

\* ------------------------------------------------------------- input sets

\* The longest list of hashes tried.
MaxHashes == 1

\* The longest generated version text tried.
MaxTextLen == 3

Names == {"a", "b"}

T_1_0_0 == <<"1", ".", "0", ".", "0">>

T_2_0_0 == <<"2", ".", "0", ".", "0">>

T_1_2_3 == <<"1", ".", "2", ".", "3">>

T_3_01_2 == <<"3", ".", "0", "1", ".", "2">>

T_1_0 == <<"1", ".", "0">>

T_abc == <<"a", "b", "c">>

Locked(text) == <<"=", "=">> \o text

AtLeast(text) == <<">", "=">> \o text

\* Version strings as they occur in a Pipfile and a Pipfile.lock.
SampleVersions ==
    {Locked(T_1_0_0), Locked(T_2_0_0), Locked(T_1_2_3), Locked(T_3_01_2),
     Locked(T_abc), AtLeast(T_1_0), <<"*">>, <<>>}

\* Locked versions with prerelease and build parts, for the orderings.
OrderedVersions ==
    {Locked(T_1_0_0), Locked(T_2_0_0), Locked(T_3_01_2),
     Locked(T_1_0_0 \o <<"-", "a">>), Locked(T_1_0_0 \o <<"+", "b">>),
     Locked(T_1_0_0 \o <<"+", "c">>), Locked(T_abc), AtLeast(T_1_0)}

TextChars == {"0", "1", ".", "a"}

\* Every text over TextChars of at most n characters.
RECURSIVE Texts(_)
Texts(n) ==
    IF n = 0 THEN {<<>>}
    ELSE Texts(n - 1) \cup
         {t \o <<c>> : t \in {u \in Texts(n - 1) : Len(u) = n - 1}, c \in TextChars}

GeneratedVersions ==
    {p \o t : p \in {<<"=", "=">>, <<">", "=">>, <<"=">>, <<>>}, t \in Texts(MaxTextLen)}
        \cup {Locked(T_1_2_3), Locked(T_3_01_2), AtLeast(T_1_0)}

Hash == "sha256:0a"

RECURSIVE HashLists(_)
HashLists(n) == IF n = 0 THEN {<<>>} ELSE HashLists(n - 1) \cup {[i \in 1..n |-> Hash]}

\* A mirror serves PyPI's URL under another name.
Mirror == Source(PyPI.url, "mirror")

Indexes == {PyNone, Some(PyPI), Some(Alt), Some(Mirror)}

Markers == {PyNone, Some(<<>>), Some(<<"x">>)}

Metas == {Meta(names) : names \in SUBSET {"pypi", "alt"}}

Records ==
    {PackageVersion(n, v, d, i, h, m) :
        n \in Names, v \in SampleVersions, d \in BOOLEAN, i \in Indexes,
        h \in HashLists(MaxHashes), m \in Markers}

VersionRecords ==
    {PackageVersion("a", v, FALSE, i, <<Hash>>, PyNone) :
        v \in GeneratedVersions, i \in {PyNone, Some(PyPI)}}

CompareRecords ==
    {PackageVersion(n, v, d, i, IF d THEN <<Hash>> ELSE <<>>,
                    IF d THEN Some(<<"x">>) ELSE PyNone) :
        n \in Names, v \in OrderedVersions, d \in BOOLEAN, i \in Indexes}

Models ==
    [package_name : Names, package_version : SampleVersions,
     index : {PyPI.url, Alt.url}]

\* A key of an entry: missing, or present with one of the values.
Absent == [has |-> FALSE, val |-> <<>>]

Opt(values) == {Absent} \cup {[has |-> TRUE, val |-> v] : v \in values}

\* The dict of the keys that are present.
MakeDict(pairs) ==
    LET present == {i \in 1..Len(pairs) : pairs[i][2].has}
    IN  [k \in {pairs[i][1] : i \in present} |->
            pairs[CHOOSE i \in present : pairs[i][1] = k][2].val]

IndexNames == {PyNone, Some("pypi"), Some("alt")}

\* Pipfile.lock entries: any of the keys may be missing, version and hashes
\* may be empty, and an unknown key may be present.
LockEntries ==
    {MakeDict(<< <<"version", v>>, <<"hashes", h>>, <<"index", i>>,
                 <<"markers", m>>, <<"extras", x>> >>) :
        v \in Opt({<<>>, Locked(T_1_0_0), AtLeast(T_1_0)}),
        h \in Opt(HashLists(MaxHashes)),
        i \in Opt(IndexNames),
        m \in Opt(Markers),
        x \in Opt({<<"socks">>})}

\* Pipfile entries: a bare version string, or a dict.
PipfileEntries ==
    {StrEntry(v) : v \in {<<"*">>, Locked(T_1_0_0), AtLeast(T_1_0)}}
        \cup
    {DictEntry(MakeDict(<< <<"version", v>>, <<"index", i>>, <<"git", g>>,
                           <<"hg", g2>>, <<"bzr", g3>>, <<"svn", g4>>,
                           <<"extras", x>> >>)) :
        v \in Opt({<<"*">>, Locked(T_1_0_0)}),
        i \in Opt(IndexNames),
        g \in Opt({<<"u">>}), g2 \in Opt({<<"u">>}),
        g3 \in Opt({<<"u">>}), g4 \in Opt({<<"u">>}),
        x \in Opt({<<"socks">>})}

\* ------------------------------------------------------------------- state

VARIABLES
    pv,     \* the PackageVersion the caller holds, None before a constructor ran
    other,  \* a second PackageVersion: a duplicate, a re-parsed copy, an operand
    entry,  \* the caller's entry dict, as the last constructor left it
    last    \* the last call: its name, receiver, arguments and outcome

vars == <<pv, other, entry, last>>

\* The record of a call: the receiver is `on` ("pv", "other" or "class"), self
\* is the receiver as it was before the call.
Do(op, on, self, arg, out) ==
    [op |-> op, on |-> on, self |-> self, arg |-> arg, out |-> out]

NoCall == Do("", "", PyNone, PyNone, Returned(PyNone))

\* ----------------------------------------------------------------- actions

IsLocked ==
    /\ pv # PyNone
    /\ last' = Do("is_locked", "pv", pv, PyNone, Returned(is_locked(pv[1])))
    /\ UNCHANGED <<pv, other, entry>>

NegateVersion ==
    /\ pv # PyNone
    /\ pv' = Some(negate_version(pv[1]).self)
    /\ last' = Do("negate_version", "pv", pv, PyNone, negate_version(pv[1]).out)
    /\ UNCHANGED <<other, entry>>

LockedVersion ==
    /\ pv # PyNone
    /\ last' = Do("locked_version", "pv", pv, PyNone, locked_version(pv[1]))
    /\ UNCHANGED <<pv, other, entry>>

SemanticVersion ==
    /\ pv # PyNone
    /\ pv' = Some(semantic_version(pv[1]).self)
    /\ last' = Do("semantic_version", "pv", pv, PyNone, semantic_version(pv[1]).out)
    /\ UNCHANGED <<other, entry>>

VersionSpecification ==
    /\ pv # PyNone
    /\ pv' = Some(version_specification(pv[1]).self)
    /\ last' = Do("version_specification", "pv", pv, PyNone,
                  version_specification(pv[1]).out)
    /\ UNCHANGED <<other, entry>>

ToPipfileLock ==
    /\ pv # PyNone
    /\ last' = Do("to_pipfile_lock", "pv", pv, PyNone, to_pipfile_lock(pv[1]))
    /\ UNCHANGED <<pv, other, entry>>

ToTuple ==
    /\ pv # PyNone
    /\ last' = Do("to_tuple", "pv", pv, PyNone, to_tuple(pv[1]))
    /\ UNCHANGED <<pv, other, entry>>

ToTupleLocked ==
    /\ pv # PyNone
    /\ last' = Do("to_tuple_locked", "pv", pv, PyNone, to_tuple_locked(pv[1]))
    /\ UNCHANGED <<pv, other, entry>>

ToPipfile ==
    /\ pv # PyNone
    /\ last' = Do("to_pipfile", "pv", pv, PyNone, to_pipfile(pv[1]))
    /\ UNCHANGED <<pv, other, entry>>

ToDict ==
    /\ pv # PyNone
    /\ last' = Do("to_dict", "pv", pv, PyNone, to_dict(pv[1]))
    /\ UNCHANGED <<pv, other, entry>>

\* other = pv.duplicate()
Duplicate ==
    /\ pv # PyNone
    /\ other' = Some(duplicate(pv[1]))
    /\ last' = Do("duplicate", "pv", pv, PyNone, Returned(duplicate(pv[1])))
    /\ UNCHANGED <<pv, entry>>

\* other.negate_version()
NegateOther ==
    /\ other # PyNone
    /\ other' = Some(negate_version(other[1]).self)
    /\ last' = Do("negate_version", "other", other, PyNone,
                  negate_version(other[1]).out)
    /\ UNCHANGED <<pv, entry>>

\* other == pv
EqOther ==
    /\ pv # PyNone /\ other # PyNone
    /\ last' = Do("__eq__", "other", other, pv, __eq__(other[1], pv[1]))
    /\ UNCHANGED <<pv, other, entry>>

\* pv == other
Eq ==
    /\ pv # PyNone /\ other # PyNone
    /\ last' = Do("__eq__", "pv", pv, other, __eq__(pv[1], other[1]))
    /\ UNCHANGED <<pv, other, entry>>

\* pv < other
Lt ==
    /\ pv # PyNone /\ other # PyNone
    /\ pv' = Some(__lt__(pv[1], other[1]).self)
    /\ other' = Some(__lt__(pv[1], other[1]).other)
    /\ last' = Do("__lt__", "pv", pv, other, __lt__(pv[1], other[1]).out)
    /\ UNCHANGED entry

\* pv > other
Gt ==
    /\ pv # PyNone /\ other # PyNone
    /\ pv' = Some(__gt__(pv[1], other[1]).self)
    /\ other' = Some(__gt__(pv[1], other[1]).other)
    /\ last' = Do("__gt__", "pv", pv, other, __gt__(pv[1], other[1]).out)
    /\ UNCHANGED entry

\* pv = PackageVersion(...): each behaviour of the constructors starts with one
\* constructor call.
Construct ==
    \E r \in Records :
        /\ pv = PyNone /\ last = NoCall
        /\ pv' = Some(r)
        /\ other' = PyNone
        /\ last' = Do("__init__", "class", PyNone, PyNone, Returned(r))
        /\ UNCHANGED entry

\* pv = PackageVersion.from_model(model, develop=develop)
FromModel ==
    \E model \in Models, develop \in BOOLEAN :
        /\ pv = PyNone /\ last = NoCall
        /\ pv' = Some(from_model(model, develop))
        /\ other' = PyNone
        /\ last' = Do("from_model", "class", PyNone,
                      [model |-> model, develop |-> develop],
                      Returned(from_model(model, develop)))
        /\ UNCHANGED entry

\* The arguments of the two entry constructors.
EntryArgs(package_name, e, develop, meta) ==
    [package_name |-> package_name, entry |-> e, develop |-> develop, meta |-> meta]

\* The instance a constructor returned, None when it raised.
Instance(out) == IF out.exc = "" THEN Some(out.ret) ELSE PyNone

\* pv = PackageVersion.from_pipfile_lock_entry(name, entry, develop, meta)
FromPipfileLockEntry ==
    \E n \in Names, e \in LockEntries, develop \in BOOLEAN, meta \in Metas :
        LET c == from_pipfile_lock_entry(n, e, develop, meta)
        IN  /\ pv = PyNone /\ last = NoCall
            /\ pv' = Instance(c.out)
            /\ other' = PyNone
            /\ entry' = c.entry
            /\ last' = Do("from_pipfile_lock_entry", "class", PyNone,
                          EntryArgs(n, e, develop, meta), c.out)

\* pv = PackageVersion.from_pipfile_entry(name, entry, develop, meta)
FromPipfileEntry ==
    \E n \in Names, e \in PipfileEntries, develop \in BOOLEAN, meta \in Metas :
        LET c == from_pipfile_entry(n, e, develop, meta)
        IN  /\ pv = PyNone /\ last = NoCall
            /\ pv' = Instance(c.out)
            /\ other' = PyNone
            /\ entry' = c.entry
            /\ last' = Do("from_pipfile_entry", "class", PyNone,
                          EntryArgs(n, e, develop, meta), c.out)

\* other = PackageVersion.from_pipfile_lock_entry(pv.name,
\*             pv.to_pipfile_lock()[pv.name], pv.develop, meta)
ReparseLockEntry ==
    /\ pv # PyNone
    /\ to_pipfile_lock(pv[1]).exc = ""
    /\ \E meta \in Metas :
        LET e == to_pipfile_lock(pv[1]).ret[pv[1].name]
            c == from_pipfile_lock_entry(pv[1].name, e, pv[1].develop, meta)
        IN  /\ other' = Instance(c.out)
            /\ entry' = c.entry
            /\ last' = Do("from_pipfile_lock_entry", "roundtrip", pv,
                          EntryArgs(pv[1].name, e, pv[1].develop, meta), c.out)
            /\ UNCHANGED pv

\* ---------------------------------------------------------- specifications

\* The life of one PackageVersion and its duplicate.
Init ==
    /\ pv \in {Some(r) : r \in Records}
    /\ other = PyNone
    /\ entry = EmptyDict
    /\ last = NoCall

Next ==
    \/ IsLocked \/ NegateVersion \/ LockedVersion \/ SemanticVersion
    \/ VersionSpecification \/ ToPipfileLock \/ ToTuple \/ ToTupleLocked
    \/ ToPipfile \/ ToDict \/ Duplicate \/ NegateOther \/ EqOther

Spec == Init /\ [][Next]_vars

\* The version semantics of one PackageVersion, over generated version texts.
InitVersion ==
    /\ pv \in {Some(r) : r \in VersionRecords}
    /\ other = PyNone
    /\ entry = EmptyDict
    /\ last = NoCall

NextVersion ==
    \/ IsLocked \/ NegateVersion \/ LockedVersion \/ SemanticVersion
    \/ VersionSpecification \/ ToPipfileLock \/ ToTuple \/ ToTupleLocked

SpecVersion == InitVersion /\ [][NextVersion]_vars

\* The comparisons of two PackageVersions.
InitCompare ==
    /\ pv \in {Some(r) : r \in CompareRecords}
    /\ other \in {Some(r) : r \in CompareRecords}
    /\ entry = EmptyDict
    /\ last = NoCall

NextCompare == Eq \/ Lt \/ Gt

SpecCompare == InitCompare /\ [][NextCompare]_vars

\* The constructors and the Pipfile.lock round trip.
InitParse ==
    /\ pv = PyNone
    /\ other = PyNone
    /\ entry = EmptyDict
    /\ last = NoCall

NextParse ==
    \/ Construct \/ FromModel \/ FromPipfileLockEntry \/ FromPipfileEntry
    \/ ToPipfileLock \/ ReparseLockEntry

SpecParse == InitParse /\ [][NextParse]_vars

\* ------------------------------------------------------------------ claims

\* The fields a caller passes to the constructor, without the memoised ones.
SameFields(r, q) ==
    /\ r.name = q.name /\ r.version = q.version /\ r.develop = q.develop
    /\ r.index = q.index /\ r.hashes = q.hashes /\ r.markers = q.markers

\* C1: a locked record written by to_pipfile_lock and read back by
\* from_pipfile_lock_entry (same name and develop flag, a registry that knows
\* the record's index name) is read back without an error, compares equal to
\* the record and has the same name, version, hashes, markers and index.
C1_RoundTrip ==
    (/\ last.op = "from_pipfile_lock_entry" /\ last.on = "roundtrip"
     /\ is_locked(pv[1])
     /\ IsNone(pv[1].index)
        \/ pv[1].index[1].name \in DOMAIN last.arg.meta.sources)
    => /\ last.out.exc = ""
       /\ __eq__(other[1], pv[1]) = Returned(TRUE)
       /\ SameFields(other[1], pv[1])

\* C2: a == b is true exactly when the names are equal, the versions are
\* equal and the URLs of the two indexes are equal (stated for two records
\* that both have an index).
C2_Equality ==
    (/\ last.op = "__eq__"
     /\ ~IsNone(last.self[1].index) /\ ~IsNone(last.arg[1].index))
    => last.out = Returned(/\ last.self[1].name = last.arg[1].name
                           /\ last.self[1].version = last.arg[1].version
                           /\ last.self[1].index[1].url = last.arg[1].index[1].url)

\* Whether a's semantic version parses, b's parses, and a's is the lower one.
ParsesLower(a, b) ==
    /\ semantic_version(a).out.exc = ""
    /\ semantic_version(b).out.exc = ""
    /\ VersionLt(semantic_version(a).out.ret, semantic_version(b).out.ret)

\* C3: a < b and a > b raise ValueError when the names differ, whatever the
\* versions; for two locked records of one name, a < b is true exactly when
\* a's parsed semantic version is lower than b's, and a > b exactly when b's is
\* lower than a's.
C3_Ordering ==
    last.op \in {"__lt__", "__gt__"}
    => /\ last.self[1].name # last.arg[1].name => last.out = Raised("ValueError")
       /\ (/\ last.self[1].name = last.arg[1].name
           /\ is_locked(last.self[1]) /\ is_locked(last.arg[1]))
          => ((last.out = Returned(TRUE))
                <=> IF last.op = "__lt__"
                    THEN ParsesLower(last.self[1], last.arg[1])
                    ELSE ParsesLower(last.arg[1], last.self[1]))

\* C3's case: "pkg" 1.0.0 < "pkg" 2.0.0 was evaluated and is true.
C3_Witness ==
    /\ last.op = "__lt__"
    /\ last.self[1].version = Locked(T_1_0_0)
    /\ last.arg[1].version = Locked(T_2_0_0)
    /\ last.self[1].index = last.arg[1].index
    /\ last.out = Returned(TRUE)

\* Everything but the version and the memoised fields is as it was.
RestUnchanged(before, after) ==
    /\ after.name = before.name /\ after.develop = before.develop
    /\ after.index = before.index /\ after.hashes = before.hashes
    /\ after.markers = before.markers

LockedOps ==
    {"locked_version", "semantic_version", "negate_version", "to_pipfile_lock",
     "to_tuple", "to_tuple_locked"}

\* C5: on a record that is not locked, locked_version, semantic_version,
\* negate_version(), to_pipfile_lock(), to_tuple() and to_tuple_locked() each
\* raise InternalError and leave every field, both memoised ones included, as
\* it was.
C5_UnlockedFails ==
    (last.op \in LockedOps /\ last.on = "pv" /\ ~is_locked(last.self[1]))
    => /\ last.out = Raised("InternalError")
       /\ pv = last.self

\* C5's case: semantic_version was read on a negated record that had
\* memoised its semantic version while it was locked.
C5_Witness ==
    /\ last.op = "semantic_version"
    /\ StartsWith(last.self[1].version, <<"!", "=">>)
    /\ ~IsNone(last.self[1]._semantic_version)
    /\ last.out = Raised("InternalError")

\* C6: semantic_version on a locked record never raises, whatever follows the
\* "==", and "==3.01.2" gives 3.1.2.
C6_NeverRaises ==
    (last.op = "semantic_version" /\ is_locked(last.self[1]))
    => /\ last.out.exc = ""
       /\ last.self[1].version = Locked(T_3_01_2)
          => last.out.ret = [major |-> 3, minor |-> 1, patch |-> 2,
                             prerelease |-> <<>>, build |-> <<>>]

\* C7: a duplicate compares equal to its original, with or without an index,
\* and carries none of its memoised fields; negating the duplicate leaves the
\* original as it was, and negating the original leaves the duplicate as it
\* was.
C7_Duplicate ==
    [][/\ last'.op = "duplicate"
          => /\ __eq__(other'[1], pv'[1]) = Returned(TRUE)
             /\ IsNone(other'[1]._semantic_version)
             /\ IsNone(other'[1]._version_spec)
       /\ (last'.op = "negate_version" /\ last'.on = "other") => pv' = pv
       /\ (last'.op = "negate_version" /\ last'.on = "pv") => other' = other]_vars

\* Whether a lock entry names an index.
NamesIndex(e) == "index" \in DOMAIN e /\ ~IsNone(e["index"])

\* The entries from_pipfile_lock_entry is to refuse.
RefusedLockEntry(e, meta) ==
    \/ "version" \notin DOMAIN e \/ Get(e, "version", <<>>) = <<>>
    \/ "hashes" \notin DOMAIN e \/ Get(e, "hashes", <<>>) = <<>>
    \/ NamesIndex(e) /\ e["index"][1] \notin DOMAIN meta.sources

\* The instance the last constructor call gave its caller.
Built == IF last.on = "roundtrip" THEN other ELSE pv

C9_PipfileEntry ==
    last.op = "from_pipfile_entry"
    => IF ~last.arg.entry.isstr /\ (DOMAIN last.arg.entry.val) \cap VcsKeys # {}
       THEN last.out = Raised("UnsupportedConfiguration")
       ELSE IF /\ ~last.arg.entry.isstr
               /\ \/ "version" \notin DOMAIN last.arg.entry.val
                  \/ /\ NamesIndex(last.arg.entry.val)
                     /\ last.arg.entry.val["index"][1]
                            \notin DOMAIN last.arg.meta.sources
       THEN last.out = Raised("PipfileParseError")
       ELSE /\ last.out.exc = ""
            /\ last.out.ret.version =
                 (IF last.arg.entry.isstr THEN last.arg.entry.val
                  ELSE last.arg.entry.val["version"])
            /\ last.out.ret.hashes = <<>>

\* C10: version_specification returns the specification parsed from the
\* record's current version, also after negate_version() changed it.
C10_CurrentSpecification ==
    (last.op = "version_specification" /\ last.out.exc = "")
    => Some(last.out.ret) = Spec_(pv[1].version)

====
